---------------------------- MODULE Spec2Model ----------------------------
(***************************************************************************)
(* A model of generateNovel.js: the novel pipeline (writeFantasyNovel),    *)
(* the generation client (callOllama, parseOllamaResponse), the storyline  *)
(* extraction and parsing, the chapter writers and the main routine.       *)
(*                                                                         *)
(* Texts are TLA+ strings, handled character by character (Len, SubSeq,    *)
(* \o).  One character cannot be written in a TLA+ string literal: the    *)
(* grave accent of a Markdown fence.  The apostrophe stands for it in     *)
(* every text of the model (Fence is three of them).                       *)
(***************************************************************************)
EXTENDS Integers, Sequences, FiniteSets, TLC

VARIABLES
  numChapters,     \* the requested chapter count (line 23)
  pc,              \* the await at which main / writeFantasyNovel is suspended
  outstanding,     \* HTTP requests sent and not yet answered
  request,         \* the arguments interpolated into the prompt of the last request
  lastResponse,    \* the text the last callOllama returned (line 80)
  fetches,         \* HTTP requests issued by the latest callOllama invocation
  plots,           \* writeFantasyNovel: plots (line 315)
  bestPlot,        \* line 318
  improvedPlot,    \* line 321
  title,           \* line 324
  storyline,       \* line 327
  chapterTitles,   \* line 331: the parsed value, or the fallback
  parseThrew,      \* whether JSON.parse threw and the catch of line 334 ran
  novel,           \* line 344
  chapters,        \* line 351
  chapterObjects,  \* line 352
  i,               \* the loop index of line 355
  attempts,        \* writeChapter invocations made for chapter i+1 (saturating)
  shorts,          \* responses of length < 1000 received for chapter i+1 (saturating)
  returned,        \* writeFantasyNovel has returned its result (line 364)
  error,           \* what main's catch (line 388) caught: "none", "callOllama", "TypeError"
  failedAt,        \* the await at which a callOllama failed, or "none"
  files            \* the output artifacts written so far

vars == <<numChapters, pc, outstanding, request, lastResponse, fetches, plots, bestPlot,
          improvedPlot, title, storyline, chapterTitles, parseThrew, novel,
          chapters, chapterObjects, i, attempts, shorts, returned, error,
          failedAt, files>>

(***************************************************************************)
(* Bounds of the model.                                                    *)
(***************************************************************************)
\* the largest requested chapter count
MaxChapters == 3
\* the value at which the per-chapter counters attempts and shorts saturate
MaxAttempts == 3

(***************************************************************************)
(* Text primitives (JavaScript String methods, character by character).    *)
(***************************************************************************)
Min(S) == CHOOSE m \in S : \A n \in S : m <= n

\* s.substring(a - 1, b): the characters a..b of s, clamped to s as substring does
Sub(s, a, b) ==
  LET lo == IF a < 1 THEN 1 ELSE a
      hi == IF b > Len(s) THEN Len(s) ELSE b
  IN  IF lo > hi THEN "" ELSE SubSeq(s, lo, hi)

\* s.charAt(k - 1): the k-th character, "" outside s
CharAt(s, k) == Sub(s, k, k)

\* s.substring(k - 1): the text from the k-th character on
From(s, k) == Sub(s, k, Len(s))

\* the characters the \s of a regular expression and String.trim take as blank
IsBlank(c) == c \in {" ", "\n", "\t", "\r"}

\* 1-based index of the first occurrence of pat in s at or after from; 0 if none
IndexOf(s, pat, from) ==
  LET found == { k \in from..(Len(s) - Len(pat) + 1) :
                   SubSeq(s, k, k + Len(pat) - 1) = pat }
  IN  IF found = {} THEN 0 ELSE Min(found)

\* s.replace(pat, rep) with a string pattern: the first occurrence only
ReplaceFirst(s, pat, rep) ==
  LET at == IndexOf(s, pat, 1)
  IN  IF at = 0 THEN s
      ELSE Sub(s, 1, at - 1) \o rep \o From(s, at + Len(pat))

RECURSIVE TrimStart(_)
TrimStart(s) ==
  IF s # "" /\ IsBlank(CharAt(s, 1)) THEN TrimStart(From(s, 2)) ELSE s

RECURSIVE TrimEnd(_)
TrimEnd(s) ==
  IF s # "" /\ IsBlank(CharAt(s, Len(s)))
  THEN TrimEnd(Sub(s, 1, Len(s) - 1)) ELSE s

\* String.prototype.trim
Trim(s) == TrimEnd(TrimStart(s))

\* s.split(sep) for a one-character separator
RECURSIVE Split(_, _)
Split(s, sep) ==
  LET at == IndexOf(s, sep, 1)
  IN  IF at = 0 THEN <<s>>
      ELSE <<Sub(s, 1, at - 1)>> \o Split(From(s, at + 1), sep)

\* Array.prototype.join
RECURSIVE Join(_, _)
Join(list, sep) ==
  IF list = <<>> THEN ""
  ELSE IF Len(list) = 1 THEN list[1]
  ELSE list[1] \o sep \o Join(Tail(list), sep)

\* n copies of s
RECURSIVE Repeat(_, _)
Repeat(s, n) ==
  IF n = 0 THEN ""
  ELSE IF n % 2 = 0 THEN LET h == Repeat(s, n \div 2) IN h \o h
  ELSE s \o Repeat(s, n - 1)

(***************************************************************************)
(* parseOllamaResponse (lines 34-53).                                      *)
(***************************************************************************)
ThinkOpen == "<think>"
ThinkClose == "</think>"

\* thinkRegex.exec from index from: the span <<first, last>> of the next
\* match of /<think>([\s\S]*?)<\/think>/g, or <<0, 0>>.  The lazy group ends
\* at the first closing tag after the first opening tag.
ThinkMatch(response, from) ==
  LET open == IndexOf(response, ThinkOpen, from)
      close == IF open = 0 THEN 0
               ELSE IndexOf(response, ThinkClose, open + Len(ThinkOpen))
  IN  IF open = 0 \/ close = 0 THEN <<0, 0>>
      ELSE <<open, close + Len(ThinkClose) - 1>>

\* the while loop of lines 41-50: matches are found in response, each full
\* match is removed from cleanedResponse by String.replace (first occurrence)
RECURSIVE StripThink(_, _, _)
StripThink(response, from, cleanedResponse) ==
  LET match == ThinkMatch(response, from)
      fullMatch == Sub(response, match[1], match[2])
  IN  IF match[1] = 0 THEN cleanedResponse
      ELSE StripThink(response, match[2] + 1,
                      ReplaceFirst(cleanedResponse, fullMatch, ""))

parseOllamaResponse(response) == Trim(StripThink(response, 1, response))

(***************************************************************************)
(* extractJsonFromMarkdown (lines 225-237).                                *)
(***************************************************************************)
Fence == "'''"
FenceJson == Fence \o "json"

\* index of the first character at or after k that is not blank
RECURSIVE SkipBlank(_, _)
SkipBlank(s, k) ==
  IF k <= Len(s) /\ IsBlank(CharAt(s, k)) THEN SkipBlank(s, k + 1) ELSE k

\* start of the run of blanks that ends just before index k, not below low
RECURSIVE BlankRunStart(_, _, _)
BlankRunStart(s, k, low) ==
  IF k > low /\ IsBlank(CharAt(s, k - 1)) THEN BlankRunStart(s, k - 1, low) ELSE k

\* text.match(jsonRegex): [found, group], group being match[1].  The greedy \s*
\* after the opening fence takes every blank; the lazy group then ends where
\* the blanks before the first closing fence start.
JsonFenceMatch(text) ==
  LET open == IndexOf(text, FenceJson, 1)
      start == SkipBlank(text, open + Len(FenceJson))
      close == IF open = 0 THEN 0 ELSE IndexOf(text, Fence, start)
  IN  IF open = 0 \/ close = 0 THEN [found |-> FALSE, group |-> ""]
      ELSE [found |-> TRUE,
            group |-> Sub(text, start, BlankRunStart(text, close, start) - 1)]

extractJsonFromMarkdown(text) ==
  LET match == JsonFenceMatch(text)
  IN  IF match.found /\ match.group # "" THEN Trim(match.group) ELSE text

(***************************************************************************)
(* JSON.parse (line 333) and the JavaScript values it returns.  A value is *)
(* a record tagged by t.  The grammar is RFC 8259 without the string       *)
(* escapes \b, \f and \uXXXX, which no text of the model contains.         *)
(***************************************************************************)
Undefined == [t |-> "undefined"]
JNull == [t |-> "null"]
JBool(b) == [t |-> "bool", b |-> b]
JNum(lexeme) == [t |-> "num", n |-> lexeme]
JStr(s) == [t |-> "str", s |-> s]
JArr(a) == [t |-> "arr", a |-> a]
\* an object is the sequence of its <<key, value>> pairs in insertion order
JObj(o) == [t |-> "obj", o |-> o]

Digit == {"0", "1", "2", "3", "4", "5", "6", "7", "8", "9"}

SyntaxError == [ok |-> FALSE, val |-> Undefined, next |-> 0]
Parsed(val, next) == [ok |-> TRUE, val |-> val, next |-> next]

\* number of consecutive digits of s from index k
RECURSIVE DigitRun(_, _)
DigitRun(s, k) ==
  IF k <= Len(s) /\ CharAt(s, k) \in Digit THEN 1 + DigitRun(s, k + 1) ELSE 0

\* number = [ "-" ] int [ "." 1*DIGIT ] [ ("e" / "E") [ "-" / "+" ] 1*DIGIT ]
ParseNumber(s, k) ==
  LET a == IF CharAt(s, k) = "-" THEN k + 1 ELSE k
      nInt == DigitRun(s, a)
      b == a + nInt
      nFrac == IF CharAt(s, b) = "." THEN DigitRun(s, b + 1) ELSE 0
      c == IF CharAt(s, b) = "." THEN b + 1 + nFrac ELSE b
      hasExp == CharAt(s, c) \in {"e", "E"}
      d == IF hasExp /\ CharAt(s, c + 1) \in {"+", "-"} THEN c + 2 ELSE c + 1
      nExp == IF hasExp THEN DigitRun(s, d) ELSE 0
      end == IF hasExp THEN d + nExp ELSE c
  IN  IF \/ nInt = 0
         \/ (nInt > 1 /\ CharAt(s, a) = "0")
         \/ (CharAt(s, b) = "." /\ nFrac = 0)
         \/ (hasExp /\ nExp = 0)
      THEN SyntaxError
      ELSE Parsed(JNum(Sub(s, k, end - 1)), end)

Unescape(c) ==
  CASE c = "n" -> "\n"
    [] c = "t" -> "\t"
    [] c = "r" -> "\r"
    [] OTHER -> c

\* the characters of a string after its opening quote, from index k
RECURSIVE ParseChars(_, _, _)
ParseChars(s, k, acc) ==
  LET c == CharAt(s, k)
  IN  IF k > Len(s) \/ c \in {"\n", "\t", "\r"} THEN SyntaxError
      ELSE IF c = "\"" THEN Parsed(JStr(acc), k + 1)
      ELSE IF c = "\\"
           THEN IF CharAt(s, k + 1) \in {"\"", "\\", "/", "n", "t", "r"}
                THEN ParseChars(s, k + 2, acc \o Unescape(CharAt(s, k + 1)))
                ELSE SyntaxError
      ELSE ParseChars(s, k + 1, acc \o c)

\* defining a property: a repeated key keeps its place and takes the new value
PutProperty(o, key, val) ==
  IF \E j \in 1..Len(o) : o[j][1] = key
  THEN [j \in 1..Len(o) |-> IF o[j][1] = key THEN <<key, val>> ELSE o[j]]
  ELSE Append(o, <<key, val>>)

RECURSIVE ParseValue(_, _)
RECURSIVE ParseElements(_, _, _)
RECURSIVE ParseMembers(_, _, _)

\* the elements of an array after "[" or ","
ParseElements(s, k, acc) ==
  LET v == ParseValue(s, k)
      k2 == SkipBlank(s, v.next)
  IN  IF ~v.ok THEN SyntaxError
      ELSE IF CharAt(s, k2) = "," THEN ParseElements(s, k2 + 1, Append(acc, v.val))
      ELSE IF CharAt(s, k2) = "]" THEN Parsed(JArr(Append(acc, v.val)), k2 + 1)
      ELSE SyntaxError

\* the members of an object after "{" or ","
ParseMembers(s, k, acc) ==
  LET k1 == SkipBlank(s, k)
      key == IF CharAt(s, k1) = "\"" THEN ParseChars(s, k1 + 1, "") ELSE SyntaxError
      k2 == SkipBlank(s, key.next)
      v == IF key.ok /\ CharAt(s, k2) = ":" THEN ParseValue(s, k2 + 1) ELSE SyntaxError
      k3 == SkipBlank(s, v.next)
  IN  IF ~v.ok THEN SyntaxError
      ELSE IF CharAt(s, k3) = ","
           THEN ParseMembers(s, k3 + 1, PutProperty(acc, key.val.s, v.val))
      ELSE IF CharAt(s, k3) = "}"
           THEN Parsed(JObj(PutProperty(acc, key.val.s, v.val)), k3 + 1)
      ELSE SyntaxError

ParseValue(s, k) ==
  LET k1 == SkipBlank(s, k)
      c == CharAt(s, k1)
      k2 == SkipBlank(s, k1 + 1)
  IN  IF k1 > Len(s) THEN SyntaxError
      ELSE IF c = "[" THEN IF CharAt(s, k2) = "]" THEN Parsed(JArr(<<>>), k2 + 1)
                           ELSE ParseElements(s, k1 + 1, <<>>)
      ELSE IF c = "{" THEN IF CharAt(s, k2) = "}" THEN Parsed(JObj(<<>>), k2 + 1)
                           ELSE ParseMembers(s, k1 + 1, <<>>)
      ELSE IF c = "\"" THEN ParseChars(s, k1 + 1, "")
      ELSE IF c = "-" \/ c \in Digit THEN ParseNumber(s, k1)
      ELSE IF Sub(s, k1, k1 + 3) = "null" THEN Parsed(JNull, k1 + 4)
      ELSE IF Sub(s, k1, k1 + 3) = "true" THEN Parsed(JBool(TRUE), k1 + 4)
      ELSE IF Sub(s, k1, k1 + 4) = "false" THEN Parsed(JBool(FALSE), k1 + 5)
      ELSE SyntaxError

\* JSON.parse(text): ok = FALSE stands for the SyntaxError it throws
JSONParse(text) ==
  LET v == ParseValue(text, 1)
  IN  IF v.ok /\ SkipBlank(text, v.next) = Len(text) + 1
      THEN [ok |-> TRUE, val |-> v.val]
      ELSE [ok |-> FALSE, val |-> Undefined]

(***************************************************************************)
(* JavaScript operations on parsed values (lines 347, 352, 203, 361).      *)
(***************************************************************************)
\* v[k] throws a TypeError, as Object.keys(v) does, when v is undefined or null
IsNullish(v) == v.t \in {"undefined", "null"}

\* v[k] for a number k >= 0 and a value v that is not nullish
Element(v, k) ==
  CASE v.t = "arr" -> IF k < Len(v.a) THEN v.a[k + 1] ELSE Undefined
    [] v.t = "str" -> IF k < Len(v.s) THEN JStr(CharAt(v.s, k + 1)) ELSE Undefined
    [] v.t = "obj" -> IF \E j \in 1..Len(v.o) : v.o[j][1] = ToString(k)
                      THEN v.o[CHOOSE j \in 1..Len(v.o) : v.o[j][1] = ToString(k)][2]
                      ELSE Undefined
    [] OTHER -> Undefined

\* a property name that is an array index: such keys are listed first, ascending
IsIndexKey(key) ==
  /\ key # ""
  /\ \A k \in 1..Len(key) : CharAt(key, k) \in Digit
  /\ (Len(key) = 1 \/ CharAt(key, 1) # "0")

\* index keys compare as numbers: by length, then digit by digit
RECURSIVE IndexKeyLess(_, _)
IndexKeyLess(a, b) ==
  IF Len(a) # Len(b) THEN Len(a) < Len(b)
  ELSE IF a = "" THEN FALSE
  ELSE IF CharAt(a, 1) # CharAt(b, 1)
       THEN \E d, e \in 0..9 : /\ ToString(d) = CharAt(a, 1)
                               /\ ToString(e) = CharAt(b, 1)
                               /\ d < e
  ELSE IndexKeyLess(From(a, 2), From(b, 2))

\* the keys of list that satisfy IsIndexKey, in ascending order
RECURSIVE SortedIndexKeys(_)
SortedIndexKeys(keys) ==
  IF keys = {} THEN <<>>
  ELSE LET least == CHOOSE a \in keys : \A b \in keys \ {a} : IndexKeyLess(a, b)
       IN  <<least>> \o SortedIndexKeys(keys \ {least})

\* Object.keys(v) for a value v that is not nullish
ObjectKeys(v) ==
  CASE v.t = "arr" -> [k \in 1..Len(v.a) |-> ToString(k - 1)]
    [] v.t = "str" -> [k \in 1..Len(v.s) |-> ToString(k - 1)]
    [] v.t = "obj" ->
         SortedIndexKeys({v.o[j][1] : j \in {j \in 1..Len(v.o) : IsIndexKey(v.o[j][1])}})
         \o SelectSeq([j \in 1..Len(v.o) |-> v.o[j][1]], LAMBDA key : ~IsIndexKey(key))
    [] OTHER -> <<>>

\* the computed property name [Object.keys(v)[0]]: "undefined" when v has no key
FirstKey(v) ==
  IF ObjectKeys(v) = <<>> THEN "undefined" ELSE ObjectKeys(v)[1]

\* faulty variant of ChapterObject: keyed by the entry's first value
ChapterObjectByValue(entry, text) ==
  [key |-> IF entry.t = "obj" /\ entry.o # <<>> /\ entry.o[1][2].t = "str"
           THEN entry.o[1][2].s ELSE "undefined",
   body |-> text]

\* the object literal { [Object.keys(entry)[0]]: text } of lines 352 and 361
ChapterObject(entry, text) == [key |-> FirstKey(entry), body |-> text]

(***************************************************************************)
(* The fallback plan of lines 339-341.                                     *)
(***************************************************************************)
\* faulty variant of FallbackEntry: numbered from 0
FallbackEntryFromZero(idx) ==
  JObj(<< <<"Chapter " \o ToString(idx) \o " - Untitled",
            JStr("This is chapter " \o ToString(idx))>> >>)

\* the element Array.from makes for index idx (from 0)
FallbackEntry(idx) ==
  JObj(<< <<"Chapter " \o ToString(idx + 1) \o " - Untitled",
            JStr("This is chapter " \o ToString(idx + 1))>> >>)

\* faulty variant of FallbackPlan: one entry short
FallbackPlanOneShort(length) == JArr([k \in 1..(length - 1) |-> FallbackEntry(k - 1)])

FallbackPlan(length) == JArr([k \in 1..length |-> FallbackEntry(k - 1)])

(***************************************************************************)
(* The length gate of writeChapter (line 217).                             *)
(***************************************************************************)
MinChapterLength == 1000

\* faulty variants of TooShort: 999 characters pass; 1000 characters do not
TooShortOffByOne(response) == Len(response) < MinChapterLength - 1

TooShortInclusive(response) == Len(response) <= MinChapterLength

\* faulty variant of TooShort: writeChapter gives up after MaxAttempts attempts
TooShortGivesUp(response) ==
  Len(response) < MinChapterLength /\ attempts < MaxAttempts

TooShort(response) == Len(response) < MinChapterLength

(***************************************************************************)
(* The texts of the model: the prompt of line 22 and, for each generation  *)
(* call, the data.response values the service may answer with.             *)
(***************************************************************************)
UserPrompt ==
  "A kingdom hidden deep in the forest, where every tree is a portal to another world."

PlotsResponses == {"1. The Gate\n2. The Root", ""}

BestPlotResponses == {"The Gate opens.", "<think>pick one</think>"}

ImprovedPlotResponses == {"<think>refine</think>The Gate opens at dusk.", ""}

TitleResponses == {"The Hidden Gate"}

InitialStorylineResponses == {"[{\"Chapter 1 - Dawn\": \"a\"}]"}

ImprovedStorylineResponses ==
  { \* a fenced plan of three entries
    "Here it is:\n'''json\n[{\"Chapter 1 - Dawn\": \"a\"}, {\"Chapter 2 - Dusk\": \"b\"}, {\"Chapter 3 - Night\": \"c\"}]\n'''\nEnjoy.",
    \* an unfenced plan of two entries
    "[{\"Chapter 1 - Dawn\": \"a\"}, {\"Chapter 2 - Dusk\": \"b\"}]",
    \* a plan whose entries share one key
    "[{\"Chapter 1 - Dawn\": \"a\"}, {\"Chapter 1 - Dawn\": \"b\"}, {\"Chapter 1 - Dawn\": \"c\"}, {\"Chapter 1 - Dawn\": \"d\"}]",
    \* plain prose
    "Once upon a time there was a gate.",
    \* a plan cut short, after a reasoning segment
    "<think>three chapters</think>[{\"Chapter 1 - Dawn\": \"a\"},",
    \* JSON that is no plan
    "[]",
    "null",
    "{\"Chapter 1 - Dawn\": \"a\"}" }

FirstDraftResponses == {"The gate stood open."}

FirstChapterResponses == {"At dawn the gate stood open.", ""}

ChapterResponses ==
  { "Too short.",
    Repeat("a", MinChapterLength - 1),
    "<think>" \o Repeat("b", MinChapterLength) \o "</think>tiny",
    Repeat("c", MinChapterLength),
    "<think>plan</think>\n" \o Repeat("d", MinChapterLength + 1) }

CoverPromptResponses == {"A gate in an oak."}

\* the awaits that wait on a callOllama
GenerationAwaits ==
  {"generatePlots", "selectMostEngaging", "improvePlot", "getTitle",
   "generateStoryline.initial", "generateStoryline.improve",
   "writeFirstChapter.draft", "writeFirstChapter.improve", "writeChapter",
   "generateCoverPrompt"}

Increment(n) == IF n < MaxAttempts THEN n + 1 ELSE n

\* every data.response of the model
ServiceResponses ==
  PlotsResponses \cup BestPlotResponses \cup ImprovedPlotResponses
  \cup TitleResponses \cup InitialStorylineResponses
  \cup ImprovedStorylineResponses \cup FirstDraftResponses
  \cup FirstChapterResponses \cup ChapterResponses \cup CoverPromptResponses

\* line 80: what callOllama returns for each data.response
Returned == [raw \in ServiceResponses |-> parseOllamaResponse(raw)]

(***************************************************************************)
(* The initial state: main has not run.                                    *)
(***************************************************************************)
Init ==
  /\ numChapters \in 1..MaxChapters
  /\ pc = "main"
  /\ outstanding = 0
  /\ request = [fn |-> "none"]
  /\ lastResponse = ""
  /\ fetches = 0
  /\ plots = <<>>
  /\ bestPlot = ""
  /\ improvedPlot = ""
  /\ title = ""
  /\ storyline = ""
  /\ chapterTitles = Undefined
  /\ parseThrew = FALSE
  /\ novel = ""
  /\ chapters = <<>>
  /\ chapterObjects = <<>>
  /\ i = 0
  /\ attempts = 0
  /\ shorts = 0
  /\ returned = FALSE
  /\ error = "none"
  /\ failedAt = "none"
  /\ files = {}

(***************************************************************************)
(* callOllama (lines 56-85).                                               *)
(***************************************************************************)
\* faulty variant of CallOllama: the request is sent while the one before it
\* is still unanswered (a call that is not awaited)
CallOllamaOverlaps(at, args, pending) ==
  /\ pc' = at
  /\ request' = args
  /\ fetches' = 1
  /\ outstanding' = outstanding + 1
  /\ error' = error

\* lines 57-72: one request is sent; pending are the requests still unanswered
CallOllama(at, args, pending) ==
  /\ pc' = at
  /\ request' = args
  /\ fetches' = 1
  /\ outstanding' = pending + 1
  /\ error' = error

\* an exception thrown in writeFantasyNovel reaches the catch of line 388
Throw(err, pending) ==
  /\ pc' = "caught"
  /\ error' = err
  /\ outstanding' = pending
  /\ UNCHANGED <<request, fetches>>

\* faulty variant of CallOllamaFail: the catch sends the request once more
CallOllamaFailRetries ==
  /\ pc \in GenerationAwaits
  /\ outstanding = 1
  /\ fetches < 2
  /\ fetches' = fetches + 1
  /\ UNCHANGED <<numChapters, pc, outstanding, request, lastResponse, plots,
                 bestPlot, improvedPlot, title, storyline, chapterTitles,
                 parseThrew, novel, chapters, chapterObjects, i, attempts,
                 shorts, returned, error, failedAt, files>>

\* faulty variant of CallOllamaFail: createCoverImage goes on without a caption
CallOllamaFailSwallowed ==
  /\ pc \in GenerationAwaits
  /\ outstanding = 1
  /\ IF pc = "generateCoverPrompt"
     THEN pc' = "sharp.toFile" /\ error' = error /\ outstanding' = outstanding - 1
          /\ UNCHANGED <<request, fetches>>
     ELSE Throw("callOllama", outstanding - 1)
  /\ failedAt' = pc
  /\ UNCHANGED <<numChapters, lastResponse, plots, bestPlot, improvedPlot, title,
                 storyline, chapterTitles, parseThrew, novel, chapters,
                 chapterObjects, i, attempts, shorts, returned, files>>

\* lines 74-84: the request fails (fetch rejects, the status is not ok, the
\* body is no JSON, or it has no response field and the trim of line 52
\* throws); the error is logged and rethrown, and no caller catches it before
\* main (line 388)
CallOllamaFail ==
  /\ pc \in GenerationAwaits
  /\ outstanding = 1
  /\ Throw("callOllama", outstanding - 1)
  /\ failedAt' = pc
  /\ UNCHANGED <<numChapters, lastResponse, plots, bestPlot, improvedPlot, title,
                 storyline, chapterTitles, parseThrew, novel, chapters,
                 chapterObjects, i, attempts, shorts, returned, files>>

\* the await of a callOllama at pc = at is resumed
Resumed(at) == pc = at /\ outstanding = 1

plotVars == <<plots, bestPlot, improvedPlot, title>>
planVars == <<storyline, chapterTitles, parseThrew>>
bookVars == <<novel, chapters, chapterObjects, i>>
retryVars == <<attempts, shorts>>
mainVars == <<returned, files>>

(***************************************************************************)
(* main and writeFantasyNovel (lines 314-391).  Each action is the code    *)
(* that runs from the resumption of one await to the next await.           *)
(***************************************************************************)
\* lines 368-375, 315, 133-139: main starts and generatePlots sends its request
Main ==
  /\ pc = "main"
  /\ CallOllama("generatePlots", [fn |-> "generatePlots", prompt |-> UserPrompt],
                outstanding)
  /\ UNCHANGED <<numChapters, lastResponse, plotVars, planVars, bookVars,
                 retryVars, mainVars, failedAt>>

\* lines 139-140, 318, 143-151
GeneratePlotsReturn(raw) ==
  /\ Resumed("generatePlots")
  /\ lastResponse' = Returned[raw]
  /\ plots' = Split(lastResponse', "\n")
  /\ CallOllama("selectMostEngaging",
                [fn |-> "selectMostEngaging", plots |-> Join(plots', ",")],
                outstanding - 1)
  /\ UNCHANGED <<numChapters, bestPlot, improvedPlot, title, planVars, bookVars,
                 retryVars, mainVars, failedAt>>

\* lines 151, 321, 154-160
SelectMostEngagingReturn(raw) ==
  /\ Resumed("selectMostEngaging")
  /\ lastResponse' = Returned[raw]
  /\ bestPlot' = lastResponse'
  /\ CallOllama("improvePlot", [fn |-> "improvePlot", plot |-> bestPlot'],
                outstanding - 1)
  /\ UNCHANGED <<numChapters, plots, improvedPlot, title, planVars, bookVars,
                 retryVars, mainVars, failedAt>>

\* faulty variant of ImprovePlotReturn: the title is asked for the plot as it
\* was before improvePlot
ImprovePlotReturnTitlesBestPlot(raw) ==
  /\ Resumed("improvePlot")
  /\ lastResponse' = Returned[raw]
  /\ improvedPlot' = lastResponse'
  /\ CallOllama("getTitle", [fn |-> "getTitle", plot |-> bestPlot],
                outstanding - 1)
  /\ UNCHANGED <<numChapters, plots, bestPlot, title, planVars, bookVars,
                 retryVars, mainVars, failedAt>>

\* lines 160, 324, 163-171
ImprovePlotReturn(raw) ==
  /\ Resumed("improvePlot")
  /\ lastResponse' = Returned[raw]
  /\ improvedPlot' = lastResponse'
  /\ CallOllama("getTitle", [fn |-> "getTitle", plot |-> improvedPlot'],
                outstanding - 1)
  /\ UNCHANGED <<numChapters, plots, bestPlot, title, planVars, bookVars,
                 retryVars, mainVars, failedAt>>

\* lines 171, 327, 239-250
GetTitleReturn(raw) ==
  /\ Resumed("getTitle")
  /\ lastResponse' = Returned[raw]
  /\ title' = lastResponse'
  /\ CallOllama("generateStoryline.initial",
                [fn |-> "generateStoryline.initial", numChapters |-> numChapters,
                 plot |-> improvedPlot],
                outstanding - 1)
  /\ UNCHANGED <<numChapters, plots, bestPlot, improvedPlot, planVars, bookVars,
                 retryVars, mainVars, failedAt>>

\* lines 250-259
StorylineInitialReturn(raw) ==
  /\ Resumed("generateStoryline.initial")
  /\ lastResponse' = Returned[raw]
  /\ CallOllama("generateStoryline.improve",
                [fn |-> "generateStoryline.improve",
                 initialResponse |-> lastResponse'],
                outstanding - 1)
  /\ UNCHANGED <<numChapters, plotVars, planVars, bookVars, retryVars, mainVars,
                 failedAt>>

\* lines 259-261, 327-347, 174-188: the storyline is extracted and parsed, the
\* fallback replaces a plan JSON.parse rejects, and writeFirstChapter sends its
\* draft request; chapterTitles[0] throws when the plan is null
StorylineImprovedReturn(raw) ==
  LET parsed == JSONParse(extractJsonFromMarkdown(Returned[raw]))
  IN  /\ Resumed("generateStoryline.improve")
      /\ lastResponse' = Returned[raw]
      /\ storyline' = extractJsonFromMarkdown(lastResponse')
      /\ parseThrew' = ~parsed.ok
      /\ chapterTitles' = IF parsed.ok THEN parsed.val ELSE FallbackPlan(numChapters)
      /\ novel' = "Storyline:\n" \o storyline' \o "\n\n"
      /\ IF IsNullish(chapterTitles')
         THEN Throw("TypeError", outstanding - 1)
         ELSE CallOllama("writeFirstChapter.draft",
                         [fn |-> "writeFirstChapter.draft", plot |-> storyline',
                          firstChapterTitle |-> Element(chapterTitles', 0)],
                         outstanding - 1)
      /\ UNCHANGED <<numChapters, plotVars, chapters, chapterObjects, i,
                     retryVars, mainVars, failedAt>>

\* lines 188-199
FirstDraftReturn(raw) ==
  /\ Resumed("writeFirstChapter.draft")
  /\ lastResponse' = Returned[raw]
  /\ CallOllama("writeFirstChapter.improve",
                [fn |-> "writeFirstChapter.improve", plot |-> request.plot,
                 firstDraft |-> lastResponse'],
                outstanding - 1)
  /\ UNCHANGED <<numChapters, plotVars, planVars, bookVars, retryVars, mainVars,
                 failedAt>>

\* faulty variant of WriteChapterPrompt: the plot of the prompt is the
\* manuscript, not the storyline (the first two arguments interchanged)
WriteChapterPromptPlotIsManuscript(previousChapters, plot, chapterTitle) ==
  [fn |-> "writeChapter", previousChapters |-> plot,
   plot |-> previousChapters, chapterTitle |-> chapterTitle]

\* faulty variant of WriteChapterPrompt: the prompt tells the model to write more
WriteChapterPromptGrows(previousChapters, plot, chapterTitle) ==
  [fn |-> "writeChapter",
   previousChapters |-> previousChapters \o "\nChapter too short. Trying again...",
   plot |-> plot, chapterTitle |-> chapterTitle]

\* the prompt of writeChapter (lines 205-212)
WriteChapterPrompt(previousChapters, plot, chapterTitle) ==
  [fn |-> "writeChapter", previousChapters |-> previousChapters, plot |-> plot,
   chapterTitle |-> chapterTitle]

\* faulty variant of NextIndex: the loop skips a chapter
NextIndexSkips(k) == k + 2

\* the next value of the loop index (line 355)
NextIndex(k) == k + 1

\* faulty variant of Loop: the accepted text is not added to the manuscript
LoopForgetsManuscript(nv, chs, objs, k) ==
  /\ novel' = novel
  /\ chapters' = chs
  /\ chapterObjects' = objs
  /\ i' = k
  /\ IF k < numChapters
     THEN /\ IF IsNullish(Element(chapterTitles, k))
             THEN Throw("TypeError", outstanding - 1) /\ UNCHANGED retryVars
             ELSE /\ CallOllama("writeChapter",
                                WriteChapterPrompt(novel, storyline,
                                                   Element(chapterTitles, k)),
                                outstanding - 1)
                  /\ attempts' = 1
                  /\ shorts' = 0
          /\ UNCHANGED mainVars
     ELSE /\ returned' = TRUE
          /\ files' = files \cup {"prompts"}
          /\ CallOllama("generateCoverPrompt",
                        [fn |-> "generateCoverPrompt", plot |-> objs],
                        outstanding - 1)
          /\ UNCHANGED retryVars

\* faulty variant of Loop: the record is assigned to chapterObjects, not pushed
LoopAssignsRecord(nv, chs, objs, k) ==
  /\ novel' = nv
  /\ chapters' = chs
  /\ chapterObjects' = <<objs[Len(objs)]>>
  /\ i' = k
  /\ IF k < numChapters
     THEN /\ IF IsNullish(Element(chapterTitles, k))
             THEN Throw("TypeError", outstanding - 1) /\ UNCHANGED retryVars
             ELSE /\ CallOllama("writeChapter",
                                WriteChapterPrompt(nv, storyline,
                                                   Element(chapterTitles, k)),
                                outstanding - 1)
                  /\ attempts' = 1
                  /\ shorts' = 0
          /\ UNCHANGED mainVars
     ELSE /\ returned' = TRUE
          /\ files' = files \cup {"prompts"}
          /\ CallOllama("generateCoverPrompt",
                        [fn |-> "generateCoverPrompt", plot |-> objs],
                        outstanding - 1)
          /\ UNCHANGED retryVars

\* lines 355-358 and 202-214, or 364, 375-381, 88-93 and 121-128: the loop
\* test with i = k after the manuscript, the texts and the records became nv,
\* chs and objs.  Either writeChapter sends its request (line 203 throws on an
\* entry that is undefined or null), or writeFantasyNovel returns, main writes
\* the manuscript file and generateCoverPrompt sends its request.
Loop(nv, chs, objs, k) ==
  /\ novel' = nv
  /\ chapters' = chs
  /\ chapterObjects' = objs
  /\ i' = k
  /\ IF k < numChapters
     THEN /\ IF IsNullish(Element(chapterTitles, k))
             THEN Throw("TypeError", outstanding - 1) /\ UNCHANGED retryVars
             ELSE /\ CallOllama("writeChapter",
                                WriteChapterPrompt(nv, storyline,
                                                   Element(chapterTitles, k)),
                                outstanding - 1)
                  /\ attempts' = 1
                  /\ shorts' = 0
          /\ UNCHANGED mainVars
     ELSE /\ returned' = TRUE
          /\ files' = files \cup {"prompts"}
          /\ CallOllama("generateCoverPrompt",
                        [fn |-> "generateCoverPrompt", plot |-> objs],
                        outstanding - 1)
          /\ UNCHANGED retryVars

\* faulty variant of FirstChapterReturn: writeFirstChapter returns its first draft
FirstChapterReturnKeepsDraft(raw) ==
  /\ Resumed("writeFirstChapter.improve")
  /\ lastResponse' = Returned[raw]
  /\ IF IsNullish(Element(chapterTitles, 0))
     THEN /\ novel' = novel \o "Chapter 1:\n" \o request.firstDraft \o "\n"
          /\ chapters' = <<request.firstDraft>>
          /\ Throw("TypeError", outstanding - 1)
          /\ UNCHANGED <<chapterObjects, i, retryVars, mainVars>>
     ELSE Loop(novel \o "Chapter 1:\n" \o request.firstDraft \o "\n",
               <<request.firstDraft>>,
               <<ChapterObject(Element(chapterTitles, 0), request.firstDraft)>>,
               1)
  /\ UNCHANGED <<numChapters, plotVars, planVars, failedAt>>

\* lines 199, 347-352, then the loop: Object.keys(chapterTitles[0]) throws on
\* an entry that is undefined or null, after lines 349 and 351 ran
FirstChapterReturn(raw) ==
  /\ Resumed("writeFirstChapter.improve")
  /\ lastResponse' = Returned[raw]
  /\ IF IsNullish(Element(chapterTitles, 0))
     THEN /\ novel' = novel \o "Chapter 1:\n" \o lastResponse' \o "\n"
          /\ chapters' = <<lastResponse'>>
          /\ Throw("TypeError", outstanding - 1)
          /\ UNCHANGED <<chapterObjects, i, retryVars, mainVars>>
     ELSE Loop(novel \o "Chapter 1:\n" \o lastResponse' \o "\n",
               <<lastResponse'>>,
               <<ChapterObject(Element(chapterTitles, 0), lastResponse')>>,
               1)
  /\ UNCHANGED <<numChapters, plotVars, planVars, failedAt>>

\* lines 214-222, 358-361, then the loop: a response shorter than 1000
\* characters makes writeChapter call itself with the same arguments
WriteChapterReturn(raw) ==
  /\ Resumed("writeChapter")
  /\ lastResponse' = Returned[raw]
  /\ IF TooShort(lastResponse')
     THEN /\ CallOllama("writeChapter",
                        WriteChapterPrompt(request.previousChapters, request.plot,
                                           request.chapterTitle),
                        outstanding - 1)
          /\ attempts' = Increment(attempts)
          /\ shorts' = IF Len(lastResponse') < MinChapterLength
                       THEN Increment(shorts) ELSE shorts
          /\ UNCHANGED <<bookVars, mainVars>>
     ELSE Loop(novel \o "Chapter " \o ToString(i + 1) \o ":\n" \o lastResponse' \o "\n",
               Append(chapters, lastResponse'),
               Append(chapterObjects,
                      ChapterObject(Element(chapterTitles, i), lastResponse')),
               NextIndex(i))
  /\ UNCHANGED <<numChapters, plotVars, planVars, failedAt>>

\* lines 128, 93-115: the caption is returned and sharp starts writing the cover
CoverPromptReturn(raw) ==
  /\ Resumed("generateCoverPrompt")
  /\ lastResponse' = Returned[raw]
  /\ pc' = "sharp.toFile"
  /\ outstanding' = outstanding - 1
  /\ UNCHANGED <<numChapters, request, fetches, plotVars, planVars, bookVars,
                 retryVars, mainVars, error, failedAt>>

\* lines 115-118, 384, 272-302: the cover is written and EpubGen starts
CoverImageWritten ==
  /\ pc = "sharp.toFile"
  /\ files' = files \cup {"cover.png"}
  /\ pc' = "EpubGen"
  /\ UNCHANGED <<numChapters, outstanding, request, lastResponse, fetches,
                 plotVars, planVars, bookVars, retryVars, returned, error,
                 failedAt>>

\* lines 303-306, 386: the EPUB is written and main ends
EpubWritten ==
  /\ pc = "EpubGen"
  /\ files' = files \cup {"epub"}
  /\ pc' = "done"
  /\ UNCHANGED <<numChapters, outstanding, request, lastResponse, fetches,
                 plotVars, planVars, bookVars, retryVars, returned, error,
                 failedAt>>

Next ==
  \/ Main
  \/ \E raw \in PlotsResponses : GeneratePlotsReturn(raw)
  \/ \E raw \in BestPlotResponses : SelectMostEngagingReturn(raw)
  \/ \E raw \in ImprovedPlotResponses : ImprovePlotReturn(raw)
  \/ \E raw \in TitleResponses : GetTitleReturn(raw)
  \/ \E raw \in InitialStorylineResponses : StorylineInitialReturn(raw)
  \/ \E raw \in ImprovedStorylineResponses : StorylineImprovedReturn(raw)
  \/ \E raw \in FirstDraftResponses : FirstDraftReturn(raw)
  \/ \E raw \in FirstChapterResponses : FirstChapterReturn(raw)
  \/ \E raw \in ChapterResponses : WriteChapterReturn(raw)
  \/ \E raw \in CoverPromptResponses : CoverPromptReturn(raw)
  \/ CoverImageWritten
  \/ EpubWritten
  \/ CallOllamaFail

Spec == Init /\ [][Next]_vars

\* every generation call eventually returns a response or fails
LiveSpec == Spec /\ WF_vars(Next)

(***************************************************************************)
(* parseOllamaResponse on its own: it is applied to a text, then to its    *)
(* own result.  The texts are the concatenations of at most MaxPieces      *)
(* pieces of tags, parts of tags, a letter and a blank.                    *)
(***************************************************************************)
MaxPieces == 5

ThinkPieces == {ThinkOpen, ThinkClose, "<th", "ink>", "a", " "}

ThinkTexts ==
  UNION { {Join(pieces, "") : pieces \in [1..n -> ThinkPieces]} : n \in 0..MaxPieces }

ThinkInit ==
  /\ numChapters = 1
  /\ pc = "parseOllamaResponse"
  /\ outstanding = 0
  /\ request \in {[fn |-> "parseOllamaResponse", response |-> text] : text \in ThinkTexts}
  /\ lastResponse = ""
  /\ fetches = 0
  /\ plots = <<>>
  /\ bestPlot = ""
  /\ improvedPlot = ""
  /\ title = ""
  /\ storyline = ""
  /\ chapterTitles = Undefined
  /\ parseThrew = FALSE
  /\ novel = ""
  /\ chapters = <<>>
  /\ chapterObjects = <<>>
  /\ i = 0
  /\ attempts = 0
  /\ shorts = 0
  /\ returned = FALSE
  /\ error = "none"
  /\ failedAt = "none"
  /\ files = {}

\* line 80: parseOllamaResponse(data.response)
ParseOllamaResponseCall ==
  /\ pc = "parseOllamaResponse"
  /\ lastResponse' = parseOllamaResponse(request.response)
  /\ pc' = "parsed"
  /\ UNCHANGED <<numChapters, outstanding, request, fetches, plotVars, planVars,
                 bookVars, retryVars, mainVars, error, failedAt>>

\* parseOllamaResponse applied to the text it returned
ParseOllamaResponseAgain ==
  /\ pc = "parsed"
  /\ request' = [fn |-> "parseOllamaResponse", response |-> lastResponse]
  /\ lastResponse' = parseOllamaResponse(lastResponse)
  /\ pc' = "reparsed"
  /\ UNCHANGED <<numChapters, outstanding, fetches, plotVars, planVars,
                 bookVars, retryVars, mainVars, error, failedAt>>

ThinkNext == ParseOllamaResponseCall \/ ParseOllamaResponseAgain

ThinkSpec == ThinkInit /\ [][ThinkNext]_vars

(***************************************************************************)
(* The properties.                                                         *)
(***************************************************************************)
\* the key of the k-th plan entry (k from 1), as Object.keys lists it
PlanKey(k) == FirstKey(Element(chapterTitles, k - 1))

RecordKeysFollowPlan ==
  /\ Len(chapterObjects) = numChapters
  /\ \A k \in 1..Len(chapterObjects) : chapterObjects[k].key = PlanKey(k)

RecordKeysDistinct ==
  \A k, m \in 1..Len(chapterObjects) :
    k # m => chapterObjects[k].key # chapterObjects[m].key

\* C1 as stated: a run that returns its result returns exactly numChapters
\* records, the k-th keyed by the key of the k-th plan entry, with pairwise
\* distinct keys.
C1_Original == returned => RecordKeysFollowPlan /\ RecordKeysDistinct

\* C1 amended: a run that returns its result returns exactly numChapters
\* records, the k-th keyed by the key of the k-th plan entry; the keys are
\* pairwise distinct when the keys of the first numChapters plan entries are,
\* as they are in the fallback plan.
C1_RecordsFollowPlan ==
  returned =>
    /\ RecordKeysFollowPlan
    /\ (\A k, m \in 1..numChapters : k # m => PlanKey(k) # PlanKey(m))
         => RecordKeysDistinct
    /\ parseThrew => RecordKeysDistinct

C1_Witness ==
  /\ returned
  /\ numChapters = MaxChapters
  /\ ~parseThrew
  /\ RecordKeysDistinct
  /\ chapterObjects[2].key = "Chapter 2 - Dusk"

\* C2 as stated: whatever the storyline stage returns, the run reaches main's
\* catch only when a generation call has failed.
C2_Original == pc = "caught" => failedAt # "none"

\* the fallback titles and overviews, written out
UntitledKeys ==
  <<"Chapter 1 - Untitled", "Chapter 2 - Untitled", "Chapter 3 - Untitled",
    "Chapter 4 - Untitled", "Chapter 5 - Untitled", "Chapter 6 - Untitled">>

UntitledOverviews ==
  <<"This is chapter 1", "This is chapter 2", "This is chapter 3",
    "This is chapter 4", "This is chapter 5", "This is chapter 6">>

UntitledEntry(k) == [t |-> "obj", o |-> << <<UntitledKeys[k], [t |-> "str", s |-> UntitledOverviews[k]]>> >>]

\* C3: when JSON.parse rejects the storyline, the plan is the fallback plan:
\* numChapters entries, the k-th mapping 'Chapter k - Untitled' to 'This is
\* chapter k', and the requests and records of the run use these entries.
C3_FallbackPlan ==
  parseThrew =>
    /\ chapterTitles.t = "arr"
    /\ Len(chapterTitles.a) = numChapters
    /\ \A k \in 1..numChapters : chapterTitles.a[k] = UntitledEntry(k)
    /\ pc = "writeFirstChapter.draft" => request.firstChapterTitle = UntitledEntry(1)
    /\ pc = "writeChapter" => request.chapterTitle = UntitledEntry(i + 1)
    /\ \A k \in 1..Len(chapterObjects) : chapterObjects[k].key = UntitledKeys[k]

C3_Witness ==
  /\ parseThrew
  /\ numChapters = MaxChapters
  /\ pc = "writeChapter"
  /\ i = MaxChapters - 1
  /\ Len(chapterObjects) = MaxChapters - 1

\* the current chapter's request was answered with a short response and sent again
Retrying == pc = "writeChapter" /\ shorts > 0

\* C4 as stated: once JSON.parse has rejected the storyline, the run
\* eventually returns its result unless a generation call fails.
C4_Original == [](parseThrew => <>(returned \/ failedAt # "none"))

\* C4 amended: the same, provided that no chapter is answered with responses
\* shorter than 1000 characters for ever (each chapter's request is eventually
\* answered with at least 1000 characters).
C4_CompletesAfterRecovery ==
  []<>(~Retrying) => [](parseThrew => <>(returned \/ failedAt # "none"))

C4_Witness ==
  /\ parseThrew
  /\ returned
  /\ numChapters = MaxChapters
  /\ shorts > 0
  /\ failedAt = "none"

\* the position of an await in the order of the pipeline
StageOrder ==
  <<"main", "generatePlots", "selectMostEngaging", "improvePlot", "getTitle",
    "generateStoryline.initial", "generateStoryline.improve",
    "writeFirstChapter.draft", "writeFirstChapter.improve">>

\* a step of the pipeline in its order: to the next await up to the first
\* chapter, then chapter by chapter, a reissue leaving the chapter and the
\* texts as they are, and to the end only with numChapters chapters written
InOrder ==
  \/ pc' = "caught"
  \/ \E k \in 1..(Len(StageOrder) - 1) :
       pc = StageOrder[k] /\ pc' = StageOrder[k + 1] /\ chapters' = <<>>
  \/ /\ pc = "writeFirstChapter.improve"
     /\ Len(chapters') = 1
     /\ i' = 1
     /\ IF numChapters > 1 THEN pc' = "writeChapter" /\ ~returned'
                           ELSE pc' = "generateCoverPrompt" /\ returned'
  \/ /\ pc = "writeChapter"
     /\ pc' = "writeChapter"
     /\ i' = i
     /\ UNCHANGED <<novel, chapters, chapterObjects, request, returned>>
  \/ /\ pc = "writeChapter"
     /\ i' = i + 1
     /\ Len(chapters') = i'
     /\ chapters'[i'] = lastResponse'
     /\ IF i' < numChapters THEN pc' = "writeChapter" /\ ~returned'
                            ELSE pc' = "generateCoverPrompt" /\ returned'
  \/ pc = "generateCoverPrompt" /\ pc' = "sharp.toFile" /\ UNCHANGED <<returned, bookVars>>
  \/ pc = "sharp.toFile" /\ pc' = "EpubGen" /\ UNCHANGED <<returned, bookVars>>
  \/ pc = "EpubGen" /\ pc' = "done" /\ UNCHANGED <<returned, bookVars>>

\* C5: the awaits are visited in the order of the pipeline only, each after
\* the response of the one before it, none skipped or visited again but for
\* the reissue of a chapter's request, and the result is returned only after
\* the text of chapter numChapters was accepted.
C5_StagesInOrder ==
  /\ [][InOrder /\ (pc' # "caught" /\ pc # "main" /\ pc' \in GenerationAwaits
                     => outstanding = 1 /\ failedAt' = "none")]_vars
  /\ [](returned => Len(chapters) = numChapters /\ i = numChapters
                    /\ Len(chapterObjects) = numChapters)

C5_Witness ==
  /\ pc = "done"
  /\ numChapters = MaxChapters
  /\ shorts > 0

\* C6: a callOllama sends exactly one request; when it fails the error reaches
\* main's catch, no further request is sent, nothing more happens in the run,
\* and a run whose pipeline call failed has returned no result.
C6_FailureAborts ==
  /\ [](pc \in GenerationAwaits => fetches = 1 /\ outstanding = 1)
  /\ [](failedAt # "none" =>
          /\ pc = "caught"
          /\ error = "callOllama"
          /\ fetches = 1
          /\ outstanding = 0
          /\ (failedAt # "generateCoverPrompt" => ~returned))
  /\ [][failedAt = "none" /\ (failedAt' # "none" => request' = request /\ failedAt' = pc)]_vars

C6_Witness ==
  /\ failedAt = "writeChapter"
  /\ pc = "caught"
  /\ shorts > 0
  /\ i = 1

\* C7 as stated: when a generation call has failed, the cover-caption call
\* included, the run has written no output artifact.
C7_Original == failedAt # "none" => files = {}

\* C7 amended: when a generation call of the pipeline has failed the run has
\* written and will write no output artifact; when the cover-caption call has
\* failed the manuscript file is already written, and neither the cover
\* image nor the EPUB is or will be.
C7_NoArtifactAfterFailure ==
  /\ [](failedAt # "none" =>
          files = IF failedAt = "generateCoverPrompt" THEN {"prompts"} ELSE {})
  /\ [][failedAt # "none" => files' = files]_vars

C7_Witness ==
  /\ failedAt = "generateCoverPrompt"
  /\ files = {"prompts"}
  /\ pc = "caught"

\* the manuscript built from the storyline and the accepted texts
RECURSIVE ChapterBlocks(_, _)
ChapterBlocks(texts, k) ==
  IF k > Len(texts) THEN ""
  ELSE "Chapter " \o ToString(k) \o ":\n" \o texts[k] \o "\n"
       \o ChapterBlocks(texts, k + 1)

ManuscriptOf(plan, texts) == "Storyline:\n" \o plan \o "\n\n" \o ChapterBlocks(texts, 1)

\* C8: every text accepted for a chapter after the first has at least 1000
\* characters, in the chapter texts, in the records and in the manuscript,
\* whose chapter blocks hold these texts; a response of fewer than 1000
\* characters changes none of the three.
C8_LengthGate ==
  /\ [](/\ \A k \in 2..Len(chapters) : Len(chapters[k]) >= 1000
        /\ \A k \in 2..Len(chapterObjects) :
             Len(chapterObjects[k].body) >= 1000 /\ chapterObjects[k].body = chapters[k]
        /\ Len(chapters) >= 1 => novel = ManuscriptOf(storyline, chapters))
  /\ [][pc = "writeChapter" /\ Len(lastResponse') < 1000
          => UNCHANGED <<novel, chapters, chapterObjects>>]_vars

C8_Witness ==
  /\ Len(chapters) = MaxChapters
  /\ Len(chapters[2]) = 1000
  /\ Len(chapterObjects[MaxChapters].body) = 1001
  /\ shorts > 0

\* C9: for a chapter after the first, each response of fewer than 1000
\* characters is followed by exactly one more request for the same chapter, and
\* the first response of at least 1000 characters is accepted with no further
\* request for it: the requests sent for the chapter are the short responses
\* received plus one.
C9_OneReissuePerShortResponse ==
  /\ [](pc = "writeChapter" /\ attempts < MaxAttempts => attempts = shorts + 1)
  /\ [][pc = "writeChapter" /\ failedAt' = "none" =>
          IF Len(lastResponse') < 1000
          THEN /\ pc' = "writeChapter"
               /\ i' = i
               /\ fetches' = 1
               /\ outstanding' = 1
               /\ attempts' = Increment(attempts)
               /\ shorts' = Increment(shorts)
          ELSE /\ i' = i + 1
               /\ chapters' = Append(chapters, lastResponse')
               /\ (attempts < MaxAttempts => attempts = shorts + 1)
               /\ (pc' = "writeChapter" => attempts' = 1 /\ shorts' = 0)]_vars

C9_Witness ==
  /\ returned
  /\ attempts = 2
  /\ shorts = 1
  /\ Len(chapters) = 2

\* a text with every <think>...</think> segment cut out, the rest in its order
RECURSIVE WithoutSegments(_)
WithoutSegments(text) ==
  LET open == IndexOf(text, "<think>", 1)
      close == IF open = 0 THEN 0 ELSE IndexOf(text, "</think>", open + 7)
  IN  IF open = 0 \/ close = 0 THEN text
      ELSE Sub(text, 1, open - 1) \o WithoutSegments(From(text, close + 8))

\* C10 as stated: parseOllamaResponse returns its input with every
\* <think>...</think> segment removed, the rest in its order, trimmed; a text
\* with no segment comes back trimmed and otherwise unchanged; and applied to
\* its own result it returns that result.
C10_Original ==
  /\ pc = "parsed" =>
       /\ lastResponse = Trim(WithoutSegments(request.response))
       /\ (WithoutSegments(request.response) = request.response
             => lastResponse = Trim(request.response))
  /\ pc = "reparsed" => lastResponse = request.response

(***************************************************************************)
(* extractJsonFromMarkdown on its own (lines 259-261): it is applied to an *)
(* improved storyline response, then to its own result.  The responses are *)
(* the concatenations of at most MaxPieces pieces of fences, the tag, a    *)
(* JSON text and blanks.                                                   *)
(***************************************************************************)
FencePieces == {Fence, "json", "[1]", " ", "\n"}

FenceTexts ==
  UNION { {Join(pieces, "") : pieces \in [1..n -> FencePieces]} : n \in 0..MaxPieces }

FenceInit ==
  /\ numChapters = 1
  /\ pc = "generateStoryline.improve"
  /\ outstanding = 0
  /\ request = [fn |-> "generateStoryline.improve", initialResponse |-> ""]
  /\ lastResponse \in FenceTexts
  /\ fetches = 1
  /\ plots = <<>>
  /\ bestPlot = ""
  /\ improvedPlot = ""
  /\ title = ""
  /\ storyline = ""
  /\ chapterTitles = Undefined
  /\ parseThrew = FALSE
  /\ novel = ""
  /\ chapters = <<>>
  /\ chapterObjects = <<>>
  /\ i = 0
  /\ attempts = 0
  /\ shorts = 0
  /\ returned = FALSE
  /\ error = "none"
  /\ failedAt = "none"
  /\ files = {}

\* line 261: extractJsonFromMarkdown(improvedResponse)
ExtractJsonFromMarkdownCall ==
  /\ pc = "generateStoryline.improve"
  /\ storyline' = extractJsonFromMarkdown(lastResponse)
  /\ pc' = "extracted"
  /\ UNCHANGED <<numChapters, outstanding, request, lastResponse, fetches,
                 plotVars, chapterTitles, parseThrew, bookVars, retryVars,
                 mainVars, error, failedAt>>

\* extractJsonFromMarkdown applied to the text it returned
ExtractJsonFromMarkdownAgain ==
  /\ pc = "extracted"
  /\ lastResponse' = storyline
  /\ storyline' = extractJsonFromMarkdown(storyline)
  /\ pc' = "reextracted"
  /\ UNCHANGED <<numChapters, outstanding, request, fetches, plotVars,
                 chapterTitles, parseThrew, bookVars, retryVars, mainVars,
                 error, failedAt>>

FenceNext == ExtractJsonFromMarkdownCall \/ ExtractJsonFromMarkdownAgain

FenceSpec == FenceInit /\ [][FenceNext]_vars

\* the places of text where a json-tagged fence opens and a fence closes it
JsonFenceOpenings(text) ==
  { k \in 1..Len(text) :
      /\ Sub(text, k, k + 6) = "'''json"
      /\ IndexOf(text, "'''", k + 7) # 0 }

\* what lies between the opening at k and the fence that closes it
FenceInterior(text, k) == Sub(text, k + 7, IndexOf(text, "'''", k + 7) - 1)

\* C11 as stated: extractJsonFromMarkdown returns a text with no json-tagged
\* fenced block unchanged; of a text with exactly one json-tagged fence it
\* returns the interior of the fence, trimmed, whatever the interior is; and
\* applied to its own result it returns that result.
C11_Original ==
  /\ pc = "extracted" =>
       /\ JsonFenceOpenings(lastResponse) = {} => storyline = lastResponse
       /\ \A k \in JsonFenceOpenings(lastResponse) :
            JsonFenceOpenings(lastResponse) = {k}
              => storyline = Trim(FenceInterior(lastResponse, k))
  /\ pc = "reextracted" => storyline = lastResponse

\* C12: while writeChapter waits, at the first attempt and after any number of
\* rejected responses, its request carries the manuscript so far, the
\* storyline and the plan entry of the chapter; a response of fewer than 1000
\* characters is followed by the same request and leaves the manuscript, the
\* records, the chapter texts, the plan and the loop index as they are.
C12_ReissueIsIdentical ==
  /\ [](pc = "writeChapter" =>
          /\ request.fn = "writeChapter"
          /\ request.previousChapters = novel
          /\ request.plot = storyline
          /\ request.chapterTitle = Element(chapterTitles, i))
  /\ [][pc = "writeChapter" /\ failedAt' = "none" /\ Len(lastResponse') < 1000
          => /\ pc' = "writeChapter"
             /\ request' = request
             /\ UNCHANGED <<novel, chapterObjects, chapters, storyline,
                            chapterTitles, i, numChapters>>]_vars

C12_Witness ==
  /\ pc = "writeChapter"
  /\ i = MaxChapters - 1
  /\ shorts = 2
  /\ attempts = 3
  /\ request.previousChapters = novel
  /\ Len(lastResponse) < 1000

\* C13: the retry of writeChapter has no bound and a short response is never
\* an error: whatever the number of short responses received for the chapter,
\* the next one is followed by one more request for the same chapter, with no
\* error caught, no result returned, no text accepted and no chapter skipped;
\* the only errors main catches are a failed callOllama and a TypeError.  A
\* run that receives only short responses therefore stays in writeChapter.
C13_RetryUnbounded ==
  /\ [][pc = "writeChapter" /\ failedAt' = "none" /\ Len(lastResponse') < 1000
          => /\ pc' = "writeChapter"
             /\ i' = i
             /\ error' = "none"
             /\ outstanding' = 1
             /\ fetches' = 1
             /\ ~returned'
             /\ Len(chapters') = i
             /\ Len(chapterObjects') = i
             /\ shorts' = Increment(shorts)]_vars
  /\ [](pc = "writeChapter" =>
          /\ error = "none"
          /\ outstanding = 1
          /\ ~returned
          /\ Len(chapters) = i)
  /\ [](error \in {"none", "callOllama", "TypeError"})
  /\ [](error = "callOllama" <=> failedAt # "none")

C13_Witness ==
  /\ pc = "writeChapter"
  /\ shorts = MaxAttempts
  /\ attempts = MaxAttempts
  /\ Len(lastResponse) < 1000
  /\ outstanding = 1
  /\ error = "none"

\* C14 as stated: the retry of writeChapter is bounded: there is a maximum
\* number of short responses after which no further request is sent for the
\* chapter and the chapter ends with an error, so that a chapter never stays
\* in writeChapter for ever, even when every response is short.
C14_Original == [](pc = "writeChapter" => <>(pc # "writeChapter"))

\* C15: from the moment the manuscript exists it is the header 'Storyline:',
\* the storyline text and an empty line, followed by one block 'Chapter k:'
\* with the accepted text of chapter k for each chapter written so far, k
\* from 1 upwards without gap or repetition; the manuscript in the request for
\* chapter i + 1 is the one with the blocks of chapters 1..i; and the
\* manuscript of the result has numChapters blocks.
C15_ManuscriptAccumulates ==
  /\ pc \in {"main", "generatePlots", "selectMostEngaging", "improvePlot",
             "getTitle", "generateStoryline.initial", "generateStoryline.improve"}
       => novel = "" /\ chapters = <<>>
  /\ pc \in {"writeFirstChapter.draft", "writeFirstChapter.improve"}
       => novel = ManuscriptOf(storyline, <<>>) /\ chapters = <<>>
  /\ novel # "" => novel = ManuscriptOf(storyline, chapters)
  /\ pc = "writeChapter" =>
       /\ Len(chapters) = i
       /\ i >= 1
       /\ request.previousChapters = ManuscriptOf(storyline, chapters)
  /\ returned =>
       /\ Len(chapters) = numChapters
       /\ novel = ManuscriptOf(storyline, chapters)

C15_Witness ==
  /\ pc = "done"
  /\ numChapters = MaxChapters
  /\ Len(chapters) = MaxChapters
  /\ novel = ManuscriptOf(storyline, chapters)
  /\ Len(chapters[MaxChapters]) > 1000

\* C16: the first chapter takes two requests, the draft and then the rewrite,
\* each sent once: the rewrite request carries the text the draft request
\* returned; the text the rewrite request returns becomes the first chapter
\* whatever its length, as chapter text, as record body and as manuscript
\* block, with no further request for the first chapter; the first chapter
\* stays that text, so the draft is kept in none of the three.
C16_FirstChapterDraftThenRefine ==
  /\ [][pc = "writeFirstChapter.draft" /\ failedAt' = "none"
          => /\ pc' = "writeFirstChapter.improve"
             /\ request'.fn = "writeFirstChapter.improve"
             /\ request'.firstDraft = lastResponse'
             /\ request'.plot = request.plot
             /\ fetches' = 1
             /\ UNCHANGED <<novel, chapters, chapterObjects>>]_vars
  /\ [][pc = "writeFirstChapter.improve" /\ failedAt' = "none"
          => /\ pc' \notin {"writeFirstChapter.draft", "writeFirstChapter.improve"}
             /\ chapters' = <<lastResponse'>>
             /\ novel' = ManuscriptOf(storyline, <<lastResponse'>>)
             /\ (pc' # "caught" =>
                   /\ Len(chapterObjects') = 1
                   /\ chapterObjects'[1].body = lastResponse')
             /\ (lastResponse' # request.firstDraft =>
                   /\ chapters'[1] # request.firstDraft
                   /\ \A k \in 1..Len(chapterObjects') :
                        chapterObjects'[k].body # request.firstDraft
                   /\ novel' # ManuscriptOf(storyline, <<request.firstDraft>>))]_vars
  /\ [][Len(chapters) >= 1 => Len(chapters') >= 1 /\ chapters'[1] = chapters[1]]_vars
  /\ [][Len(chapterObjects) >= 1 =>
          Len(chapterObjects') >= 1 /\ chapterObjects'[1] = chapterObjects[1]]_vars
  /\ [][pc' \in {"writeFirstChapter.draft", "writeFirstChapter.improve"}
          => pc \in {"generateStoryline.improve", "writeFirstChapter.draft"}
             /\ pc' # pc]_vars

C16_Witness ==
  /\ returned
  /\ numChapters = MaxChapters
  /\ chapters[1] = ""
  /\ chapterObjects[1].body = ""
  /\ Len(chapters[2]) >= 1000

\* C17: at most one generation request is outstanding in every state, one
\* exactly while the run waits at a callOllama; and a request, of the next
\* stage, of the next chapter or a reissue, is sent only in the step that
\* receives the response of the request before it (the first one when main
\* starts), so that the requests never overlap.
C17_Sequential ==
  /\ [](outstanding \in {0, 1})
  /\ [](outstanding = 1 <=> pc \in GenerationAwaits)
  /\ [][pc' \in GenerationAwaits
          => /\ outstanding' = 1
             /\ fetches' = 1
             /\ \/ pc = "main" /\ outstanding = 0
                \/ /\ pc \in GenerationAwaits
                   /\ outstanding = 1
                   /\ lastResponse' \in {Returned[raw] : raw \in ServiceResponses}
                   /\ failedAt' = "none"]_vars
  /\ [][outstanding' > outstanding => pc = "main" /\ outstanding' = 1]_vars

C17_Witness ==
  /\ pc = "writeChapter"
  /\ outstanding = 1
  /\ i = MaxChapters - 1
  /\ shorts > 0
  /\ Len(chapters[1]) > 0

\* a text with every line break replaced by a comma
RECURSIVE CommaForLineBreak(_)
CommaForLineBreak(text) ==
  IF text = "" THEN ""
  ELSE (IF Head(text) = Head("\n") THEN "," ELSE Sub(text, 1, 1))
       \o CommaForLineBreak(From(text, 2))

\* the steps of the plot pipeline when the plots text handed to
\* selectMostEngaging is plotsGiven: the three requests are sent once each, in
\* their order, each on the response of the one before it whatever that
\* response is, and the text improvePlot returned is the plot of the getTitle
\* and of the generateStoryline request
PlotPipelineStep(plotsGiven) ==
  /\ pc' = "generatePlots" => pc = "main" /\ request'.prompt = UserPrompt
  /\ pc' = "selectMostEngaging" =>
       pc = "generatePlots" /\ request'.plots = plotsGiven
  /\ pc' = "improvePlot" =>
       /\ pc = "selectMostEngaging"
       /\ request'.plot = lastResponse'
       /\ bestPlot' = lastResponse'
  /\ pc' = "getTitle" =>
       /\ pc = "improvePlot"
       /\ request'.plot = lastResponse'
       /\ improvedPlot' = lastResponse'
  /\ pc' = "generateStoryline.initial" =>
       /\ pc = "getTitle"
       /\ request'.plot = improvedPlot
       /\ improvedPlot' = improvedPlot
  /\ failedAt' = "none" =>
       /\ pc = "generatePlots" => pc' = "selectMostEngaging" /\ fetches' = 1
       /\ pc = "selectMostEngaging" => pc' = "improvePlot" /\ fetches' = 1
       /\ pc = "improvePlot" => pc' = "getTitle" /\ fetches' = 1

\* C18 as stated: generatePlots, selectMostEngaging and improvePlot send one
\* request each, in this order, and each hands the text it received, whatever
\* it is, unchanged to the next; the text of improvePlot is the plot of the
\* title and of the storyline.
C18_Original == [][PlotPipelineStep(lastResponse')]_vars

\* C18 amended: the same, except that the text generatePlots received reaches
\* selectMostEngaging with each line break replaced by a comma (the list of
\* its lines, as a template literal prints it).
C18_PlotPipeline == [][PlotPipelineStep(CommaForLineBreak(lastResponse'))]_vars

C18_Witness ==
  /\ pc = "generateStoryline.initial"
  /\ Len(plots) = 2
  /\ bestPlot = ""
  /\ improvedPlot = ""
  /\ request.plot = ""

\* the number of entries of the plan in use
PlanLength == IF chapterTitles.t = "arr" THEN Len(chapterTitles.a) ELSE 0

\* a step keeps every record as it is and adds at most one, at the end, in the
\* step that accepts the text of its chapter: the record of chapter n pairs
\* the key of the n-th plan entry with the text just accepted
RecordsAppendOnly ==
  /\ Len(chapterObjects') \in {Len(chapterObjects), Len(chapterObjects) + 1}
  /\ \A k \in 1..Len(chapterObjects) : chapterObjects'[k] = chapterObjects[k]
  /\ Len(chapterObjects') = Len(chapterObjects) + 1 =>
       LET n == Len(chapterObjects')
       IN  /\ failedAt' = "none"
           /\ pc = IF n = 1 THEN "writeFirstChapter.improve" ELSE "writeChapter"
           /\ chapters' = Append(chapters, lastResponse')
           /\ Len(chapters') = n
           /\ chapterObjects'[n] = [key |-> PlanKey(n), body |-> lastResponse']
           /\ n >= 2 => Len(lastResponse') >= 1000

\* every record holds the text of its chapter
RecordsMatchTexts ==
  /\ Len(chapterObjects) <= Len(chapters)
  /\ \A k \in 1..Len(chapterObjects) :
       chapterObjects[k] = [key |-> PlanKey(k), body |-> chapters[k]]

\* C19 as stated: records are only ever appended, each in the step that
\* accepts the text of its chapter, in the order of the chapters, and never
\* changed or removed afterwards; when the run has returned there is exactly
\* one record for each entry of the plan, with the text of that chapter.
C19_Original ==
  /\ [][RecordsAppendOnly]_vars
  /\ [](RecordsMatchTexts)
  /\ [](returned => Len(chapterObjects) = PlanLength)

\* C19 amended: the same, with exactly one record for each of the first
\* numChapters entries of the plan when the run has returned; entries of the
\* plan beyond the requested chapter count get no record.
C19_RecordsAppendOnly ==
  /\ [][RecordsAppendOnly]_vars
  /\ [](RecordsMatchTexts)
  /\ [](returned =>
          /\ Len(chapterObjects) = numChapters
          /\ Len(chapters) = numChapters
          /\ PlanLength >= numChapters)

C19_Witness ==
  /\ returned
  /\ numChapters > 1
  /\ PlanLength > numChapters
  /\ Len(chapterObjects) = numChapters
  /\ shorts > 0

\* the awaits that come before the storyline is known
BeforeStoryline ==
  {"main", "generatePlots", "selectMostEngaging", "improvePlot", "getTitle",
   "generateStoryline.initial", "generateStoryline.improve"}

\* C20: the storyline is the text extracted from the improved storyline
\* response and never changes afterwards; the header of the manuscript and the
\* plot of the first-chapter requests and of every writeChapter request are
\* that text, also when JSON.parse rejected it and the entries and the record
\* keys come from the fallback plan.
C20_StorylineContextFixed ==
  /\ [][pc = "generateStoryline.improve" /\ failedAt' = "none"
          => storyline' = extractJsonFromMarkdown(lastResponse')]_vars
  /\ [][pc \notin BeforeStoryline => storyline' = storyline]_vars
  /\ [](pc \in {"writeFirstChapter.draft", "writeFirstChapter.improve", "writeChapter"}
          => request.plot = storyline)
  /\ [](pc \notin BeforeStoryline /\ failedAt \notin BeforeStoryline
          => Sub(novel, 1, Len(storyline) + 13) = "Storyline:\n" \o storyline \o "\n\n")
  /\ [](parseThrew =>
          /\ ~JSONParse(storyline).ok
          /\ chapterTitles = FallbackPlan(numChapters)
          /\ \A k \in 1..Len(chapterObjects) :
               chapterObjects[k].key = UntitledKeys[k])

C20_Witness ==
  /\ parseThrew
  /\ pc = "writeChapter"
  /\ shorts > 0
  /\ Len(chapterObjects) = 2
  /\ storyline = "Once upon a time there was a gate."
  /\ request.plot = storyline
  /\ request.chapterTitle = UntitledEntry(3)

=============================================================================
